---- MODULE Spec2Model ----
(***************************************************************************)
(* LiveCaption relay (src/relay_service/relay_main.py) as a state machine. *)
(*                                                                         *)
(* The relay is a single asyncio event loop.  Every task of the program    *)
(* is modelled by a program counter that names the await at which the task *)
(* is suspended; one action is the code a task runs from one await to the  *)
(* next.  The tasks are ffmpeg_reader (ingest), asr_link with its sender   *)
(* and receiver subtasks and the audio_queue.get() tasks the sender        *)
(* creates, and the lifespan shutdown.  The transcoder process, the ASR    *)
(* server and the subscribers are the environment.                         *)
(***************************************************************************)
EXTENDS Integers, Sequences, FiniteSets, TLC

\* ------------------------------------------------------------------ bounds
\* Chunks the transcoder processes output in one run.
MaxChunks == 1
\* ASR connection attempts in one run.
MaxSess == 2
\* Capacity of the AudioQueue (asyncio.Queue(maxsize=max_chunks)).
max_chunks == 2
\* cfg.max_backoff_seconds.
max_backoff_seconds == 4
\* Messages the ASR sends after its config message, per run.
MaxMsgs == 1
\* The bounds of SpecFlow, which follows the audio path further: more chunks,
\* a transcoder that fails only by going idle, no shutdown, no subscribers
\* and an ASR that sends nothing after its config message.
FlowChunks == 4
FlowSess == 2
\* The bound of SpecReceiver, which follows one session's receiver through
\* every kind of ASR payload.
RecvMsgs == 3

\* The bounds of SpecBroadcast, which follows the subscriber registry through
\* broadcasts that overlap: broadcasts each task starts, and subscribers that
\* connect and disconnect at once.
MaxBroadcasts == 2
MaxBounces == 1

\* The bounds of the specifications that follow the two backoffs: transcoder
\* runs that end in a failure, counted in SpecIngestBackoff, and connection
\* attempts in SpecLinkBackoff.
MaxFails == 4
BackoffSess == 5

\* The bound of SpecShutdown, which follows the shutdown from every state of
\* the relay: connection attempts.
ShutdownSess == 1

\* Subscriber handles that may connect to /subtitles.
Handles == {"h1"}
\* The handles of SpecBroadcast.
SubHandles == {"h1", "h2"}
\* The tasks that call broadcast: ffmpeg_reader, and asr_link with its
\* receiver (asr_link waits while its receiver runs).
Callers == {"ffmpeg_reader", "asr_link"}

Formats == {"webm", "pcm"}

\* A chunk is the transcoder output of one read: id numbers the reads of
\* the run, fmt is the format of the transcoder that wrote it.  Three fields
\* record what happened to it: for, the connection attempt it was taken out
\* of the queue for (0 while it is in the queue); kept, the except clauses
\* that left it pending; stale, whether it was in the queue when a session
\* that had started its sender and receiver ended; old, whether it was read
\* while RESTART_INGEST was set, that is from the transcoder that was running
\* when the flag was set (ingest clears the flag before it kills it).
\* The absent chunk (None).
NoChunk ==
    [id |-> 0, fmt |-> "none", for |-> 0, kept |-> {}, stale |-> FALSE, old |-> FALSE]

Min(a, b) == IF a < b THEN a ELSE b

\* ------------------------------------------------------------------ state
VARIABLES
    \* create_app: the shared objects
    stop_event,             \* STOP
    stream_end_event,       \* STREAM_END
    restart_ingest_event,   \* RESTART_INGEST
    format,                 \* FormatController._format
    audio_queue,            \* AudioQueue: queue, waiting getters, woken getters, _dropped
    clients,                \* SubtitleBroadcaster._clients
    stalled,                \* subscribers whose send_text does not complete
    bcast,                  \* the broadcast each caller is in, send by send
    bounces,                \* subscribers that connected and disconnected at once
    send_budget_defined,    \* whether cfg has the attribute send_budget_seconds
    debug_mode,
    lim,                    \* bounds of the run, one field per counter
    \* ffmpeg_reader
    fPc,                    \* the await ffmpeg_reader is suspended at
    fCancel,                \* cancel() requested and CancelledError not yet delivered
    current_fmt,            \* format the running transcoder was built for
    process,                \* "none", "alive", "exited", "killed", "reaped"
    liveProcs,              \* number of transcoder children not yet killed or exited
    idle_signaled,
    ingest_backoff,
    nread,                  \* chunks read from transcoders so far
    ingestStatus,           \* last status ffmpeg_reader passed to broadcast_status
    \* asr_link
    aPc,
    aCancel,
    aExc,                   \* exception propagating out of the try block
    pending_chunk,
    asr_backoff,
    ws,                     \* "none", "open", "closing", "closed"
    openSockets,            \* number of uplink sockets not closed
    peer,                   \* ASR side of the uplink: "up", "closed_ok", "closed_err"
    stream_started,
    ready_to_stop_seen,
    last_status,
    last_caption,
    last_translation,
    \* sender / receiver subtasks of the session
    sPc,
    sResult,                \* how the sender task ended
    sChunk,
    audio_task,             \* "none", "new", "pending", "done"
    audioResult,
    end_task,               \* "none", "pending", "done"
    rPc,
    rResult,                \* how the receiver task ended
    asrMsgs,                \* messages the ASR sent after its config messages
    \* observation of the run
    sess,                   \* connection attempts started
    sessFmt,                \* format the config message of the session selected
    sentLog,                \* binary frames sent on the uplink of the current session
    emptySent,              \* an empty binary frame was sent on the current uplink
    obs                     \* facts recorded for the properties

ingestVars == <<fPc, fCancel, current_fmt, process, liveProcs, idle_signaled,
                ingest_backoff, nread, ingestStatus>>
linkVars == <<aPc, aCancel, aExc, pending_chunk, asr_backoff, ws, openSockets, peer,
              stream_started, ready_to_stop_seen, sess, sessFmt, sentLog, emptySent>>
recvVars == <<last_status, last_caption, last_translation, rPc, rResult, asrMsgs>>
sendVars == <<sPc, sResult, sChunk, audio_task, audioResult, end_task>>
sigVars == <<stop_event, stream_end_event, restart_ingest_event>>
cfgVars == <<send_budget_defined, debug_mode, lim>>
subVars == <<stalled, bcast, bounces>>

vars == <<sigVars, format, audio_queue, clients, cfgVars, subVars, ingestVars,
          linkVars, recvVars, sendVars, obs>>

\* ------------------------------------------------------- AudioQueue
\* asyncio.Queue as AudioQueue uses it.  getters is Queue._getters: the tags
\* of the tasks suspended in get() whose future is not resolved ("A" asr_link
\* itself, "S" the audio_task of the live sender, "O" an audio_task whose
\* sender is gone).  wokenA, wokenS, wokenO are the getters whose future
\* _wakeup_next resolved and that have not run yet.
EmptyQueue ==
    [queue |-> <<>>, getters |-> <<>>, wokenA |-> FALSE, wokenS |-> FALSE,
     wokenO |-> 0, dropped |-> 0, maxsize |-> max_chunks]

wakeup_next(q) ==
    IF q.getters = <<>> THEN q
    ELSE LET g == Head(q.getters)
             r == [q EXCEPT !.getters = Tail(q.getters)]
         IN  IF g = "A" THEN [r EXCEPT !.wokenA = TRUE]
             ELSE IF g = "S" THEN [r EXCEPT !.wokenS = TRUE]
             ELSE [r EXCEPT !.wokenO = @ + 1]

\* A faulty put that makes room on a full queue by dropping the oldest
\* chunk; C12_BoundedDropNewest must tell it from put.
put_drop_oldest(q, chunk) ==
    IF Len(q.queue) >= q.maxsize
    THEN [q EXCEPT !.queue = Append(Tail(@), chunk), !.dropped = @ + 1]
    ELSE wakeup_next([q EXCEPT !.queue = Append(@, chunk)])

\* AudioQueue.put: put_nowait, and on QueueFull count the drop.
put(q, chunk) ==
    IF Len(q.queue) >= q.maxsize
    THEN [q EXCEPT !.dropped = @ + 1]
    ELSE wakeup_next([q EXCEPT !.queue = Append(@, chunk)])

\* A faulty get that returns the newest item while the oldest is removed;
\* C11_SentInEnqueueOrder must tell it from get_item.
get_newest(q) == q.queue[Len(q.queue)]

\* Queue.get_nowait on a non-empty queue: the item and the queue left.
get_item(q) == Head(q.queue)
get_rest(q) == [q EXCEPT !.queue = Tail(@)]

\* Queue.get, first pass: the queue is empty, the caller appends its future.
wait_getter(q, tag) == [q EXCEPT !.getters = Append(@, tag)]

RemoveFirst(s, tag) ==
    LET idx == CHOOSE i \in 1..Len(s) : s[i] = tag /\ \A j \in 1..(i - 1) : s[j] # tag
    IN  SubSeq(s, 1, idx - 1) \o SubSeq(s, idx + 1, Len(s))

IsWaiting(q, tag) == \E i \in 1..Len(q.getters) : q.getters[i] = tag

IsWoken(q, tag) ==
    IF tag = "A" THEN q.wokenA ELSE IF tag = "S" THEN q.wokenS ELSE q.wokenO > 0

unwake(q, tag) ==
    IF tag = "A" THEN [q EXCEPT !.wokenA = FALSE]
    ELSE IF tag = "S" THEN [q EXCEPT !.wokenS = FALSE]
    ELSE [q EXCEPT !.wokenO = @ - 1]

\* Queue.get, the except clause: the task is cancelled while suspended in
\* get().  A future not yet resolved is cancelled and removed; a resolved one
\* hands the wake-up to the next getter when an item is there.
cancel_getter(q, tag) ==
    IF IsWoken(q, tag)
    THEN IF q.queue # <<>> THEN wakeup_next(unwake(q, tag)) ELSE unwake(q, tag)
    ELSE IF IsWaiting(q, tag) THEN [q EXCEPT !.getters = RemoveFirst(@, tag)]
    ELSE q

\* The audio_task of a sender that is cancelled or gone stays in get(): its
\* tag "S" becomes "O" wherever it is.
orphan_getter(q) ==
    LET r == [q EXCEPT !.getters =
                 [i \in 1..Len(@) |-> IF @[i] = "S" THEN "O" ELSE @[i]]]
    IN  IF q.wokenS THEN [r EXCEPT !.wokenS = FALSE, !.wokenO = @ + 1] ELSE r

\* clear_audio_queue: get_nowait until QueueEmpty.
clear_audio_queue(q) == [q EXCEPT !.queue = <<>>]

\* Number of tasks inside AudioQueue.get().
GetCallers(q) ==
    Len(q.getters) + q.wokenO + (IF q.wokenA THEN 1 ELSE 0) + (IF q.wokenS THEN 1 ELSE 0)


\* ------------------------------------------------------------ observation
\* obs records what the properties need to know about the past of the run.
ObsInit ==
    [droppedIds |-> {},         \* chunks put() dropped on a full queue
     stolenIds |-> {},          \* chunks taken by a get() whose sender was gone
     lastSent |-> 0,            \* id of the last frame sent on an uplink in the run
     endCause |-> "none",       \* why the last session ended
     endWaiting |-> FALSE,      \* its handler broadcast status=waiting
     endDrained |-> FALSE,      \* ... drained the queue
     endDiscarded |-> FALSE,    \* ... set pending_chunk to None
     endRestart |-> FALSE,      \* ... set RESTART_INGEST
     exitNeedStop |-> FALSE,    \* the finally clause last ran for an opened socket with
                                \* (STOP or stream_started) and no ready_to_stop
     exitEmpty |-> FALSE,       \* ... and an empty frame had been sent on it
     capPrev |-> <<<<>>, FALSE>>, \* the caption broadcast before the last one
     capCur |-> <<<<>>, FALSE>>,  \* the last caption broadcast of the session
     synPrev |-> <<<<>>, FALSE>>, \* the same, synthesised captions only
     synCur |-> <<<<>>, FALSE>>,
     bcastTypes |-> {},         \* types of the messages the receiver broadcast
     fails |-> 0,               \* transcoder runs that ended in a failure (end of
                                \* output, read error) since bytes were last read,
                                \* counted up to lim.fails
     linkFails |-> 0]           \* connection attempts and sessions in a row that
                                \* ended in asr_link's `except Exception` clause:
                                \* since the last config message, NO_AUDIO end or
                                \* refused or failed connection

\* A run of the transcoder ended in a failure.
run_failed(o) == [o EXCEPT !.fails = IF @ < lim.fails THEN @ + 1 ELSE @]

\* ------------------------------------------------- SubtitleBroadcaster
\* register and unregister: add to and discard from the set.
register(S, h) == S \cup {h}

\* A faulty unregister that empties the set;
\* C18_RegisterUnregisterIdentity must tell it from unregister.
unregister_all(S, h) == {}

unregister(S, h) == S \ {h}

\* A broadcast that is not running: no snapshot, and the handles the last
\* one sent to (sent) and recorded as dead (dead); n counts the calls.
IdleBroadcast == [pc |-> "idle", snap |-> <<>>, sent |-> {}, dead |-> {}, n |-> 0]

\* subtitles_ws accepts a connection and registers its handle.  Every
\* connection has a handle of its own, so the handle is not in the set.
Register(h) ==
    /\ h \notin clients
    /\ clients' = register(clients, h)
    /\ UNCHANGED <<sigVars, format, audio_queue, cfgVars, subVars, ingestVars, linkVars,
                   recvVars, sendVars, obs>>

\* The subscriber disconnects: receive_text raises, the finally clause
\* unregisters the handle.  A send to it that was not completing fails.
Unregister(h) ==
    /\ h \in clients
    /\ clients' = unregister(clients, h)
    /\ stalled' = stalled \ {h}
    /\ UNCHANGED <<sigVars, format, audio_queue, cfgVars, bcast, bounces, ingestVars,
                   linkVars, recvVars, sendVars, obs>>

\* broadcast, from call to return: every send_text of the snapshot succeeds
\* or raises, and the handles whose send raised are discarded.  There is no
\* timeout on send_text: the broadcast does not return while the send to a
\* subscriber does not complete.
Broadcast ==
    /\ clients \cap stalled = {}
    /\ \E dead \in SUBSET clients : clients' = clients \ dead

\* list(self._clients): the handles of the set in some order.
Orders(S) ==
    {o \in [1..Cardinality(S) -> S] : \A i, j \in 1..Cardinality(S) : i # j => o[i] # o[j]}

\* A faulty end of broadcast that toggles the dead handles in the set instead
\* of discarding them; C15_BroadcastNeverAdds must tell it from discard_dead.
toggle_dead(S, dead) == (S \ dead) \cup (dead \ S)

\* The end of broadcast: the handles recorded as dead are discarded.
discard_dead(S, dead) == S \ dead

\* broadcast is called by task c.  With no subscriber it returns at once;
\* else it takes the snapshot and awaits the first send_text.
BroadcastCall(c) ==
    /\ bcast[c].pc = "idle"
    /\ bcast[c].n < lim.bcasts
    /\ IF clients = {}
       THEN bcast' = [bcast EXCEPT ![c] = [IdleBroadcast EXCEPT !.n = bcast[c].n + 1]]
       ELSE \E order \in Orders(clients) :
               bcast' = [bcast EXCEPT ![c] = [pc |-> "send", snap |-> order, sent |-> {},
                                              dead |-> {}, n |-> bcast[c].n + 1]]
    /\ UNCHANGED <<sigVars, format, audio_queue, clients, cfgVars, stalled, bounces,
                   ingestVars, linkVars, recvVars, sendVars, obs>>

\* The send_text that task c awaits returns or raises; the loop goes on to
\* the next handle of the snapshot, or the broadcast discards the dead
\* handles and returns.  The send to a stalled subscriber does neither.
SendDone(c, raised) ==
    /\ bcast[c].pc = "send"
    /\ LET h == Head(bcast[c].snap)
           rest == Tail(bcast[c].snap)
           sent == IF raised THEN bcast[c].sent ELSE bcast[c].sent \cup {h}
           dead == IF raised THEN bcast[c].dead \cup {h} ELSE bcast[c].dead
       IN  /\ h \notin stalled
           /\ bcast' = [bcast EXCEPT ![c] = [pc |-> IF rest = <<>> THEN "idle" ELSE "send",
                                              snap |-> rest, sent |-> sent, dead |-> dead,
                                              n |-> bcast[c].n]]
           /\ clients' = (IF rest = <<>> THEN discard_dead(clients, dead) ELSE clients)
           /\ stalled' = (IF rest = <<>> THEN stalled \ dead ELSE stalled)
    /\ UNCHANGED <<sigVars, format, audio_queue, cfgVars, bounces, ingestVars, linkVars,
                   recvVars, sendVars, obs>>

\* A subscriber stops reading: from now on a send_text to it neither
\* returns nor raises, as long as it stays connected.
Stall(h) ==
    /\ h \in clients
    /\ h \notin stalled
    /\ stalled' = stalled \cup {h}
    /\ UNCHANGED <<sigVars, format, audio_queue, clients, cfgVars, bcast, bounces,
                   ingestVars, linkVars, recvVars, sendVars, obs>>

\* A subscriber connects and disconnects at once: subtitles_ws registers the
\* handle and unregisters it with nothing in between.
Bounce(h) ==
    /\ h \notin clients
    /\ bounces < lim.bounces
    /\ bounces' = bounces + 1
    /\ clients' = unregister(register(clients, h), h)
    /\ UNCHANGED <<sigVars, format, audio_queue, cfgVars, stalled, bcast, ingestVars,
                   linkVars, recvVars, sendVars, obs>>

\* A task awaiting broadcast is suspended only when there is a subscriber to
\* send to; with no subscriber broadcast returns at once and a pending
\* cancellation is delivered at the next await.
BroadcastRuns(cancel) == cancel => clients = {}

\* ------------------------------------------------------ ffmpeg_reader
\* A faulty finally clause that goes on to the sleep without killing the
\* transcoder; C1_OneProcessOneSocket must tell it from EnterFinally.
EnterFinallyNoKill(waitPc, sleepPc) ==
    /\ fPc' = sleepPc
    /\ UNCHANGED <<process, liveProcs>>

\* The finally clause up to its first await: kill a transcoder that has not
\* exited, then wait for it, else go on to the sleep.
EnterFinally(waitPc, sleepPc) ==
    /\ fPc' = (IF process = "alive" THEN waitPc ELSE sleepPc)
    /\ process' = (IF process = "alive" THEN "killed" ELSE process)
    /\ liveProcs' = (IF process = "alive" THEN liveProcs - 1 ELSE liveProcs)

\* A faulty outer loop that does not test STOP;
\* C26_ShutdownTerminates must tell it from LoopTop.
LoopTopIgnoresStop(installed) ==
    /\ current_fmt' = format
    /\ IF installed
       THEN /\ process' = "alive"
            /\ liveProcs' = liveProcs + 1
            /\ fPc' = "spawn"
            /\ UNCHANGED ingestStatus
       ELSE /\ fPc' = "bcast_nf"
            /\ ingestStatus' = "error"
            /\ UNCHANGED <<process, liveProcs>>

\* Top of the outer loop: while not STOP, read the format and spawn.
\* installed: whether the ffmpeg binary is found (else FileNotFoundError).
LoopTop(installed) ==
    IF stop_event
    THEN /\ fPc' = "done"
         /\ UNCHANGED <<current_fmt, process, liveProcs, ingestStatus>>
    ELSE /\ current_fmt' = format
         /\ IF installed
            THEN /\ process' = "alive"
                 /\ liveProcs' = liveProcs + 1
                 /\ fPc' = "spawn"
                 /\ UNCHANGED ingestStatus
            ELSE /\ fPc' = "bcast_nf"
                 /\ ingestStatus' = "error"
                 /\ UNCHANGED <<process, liveProcs>>

\* Top of the read loop, up to the read.
ReadLoopTop ==
    IF stop_event
    THEN /\ EnterFinally("wait", "sleep")
         /\ UNCHANGED <<restart_ingest_event, ingestStatus>>
    ELSE IF restart_ingest_event
    THEN /\ restart_ingest_event' = FALSE
         /\ EnterFinally("wait", "sleep")
         /\ UNCHANGED ingestStatus
    ELSE IF format # current_fmt
    THEN /\ fPc' = "bcast_err"
         /\ ingestStatus' = "error"
         /\ UNCHANGED <<process, liveProcs, restart_ingest_event>>
    ELSE /\ fPc' = "read"
         /\ UNCHANGED <<process, liveProcs, restart_ingest_event, ingestStatus>>

\* broadcast_status("starting") returns; first pass of the outer loop.
FStarting(installed) ==
    /\ fPc = "starting"
    /\ BroadcastRuns(fCancel)
    /\ Broadcast
    /\ LoopTop(installed)
    /\ UNCHANGED <<sigVars, format, audio_queue, cfgVars, subVars, fCancel, idle_signaled,
                   ingest_backoff, nread, linkVars, recvVars, sendVars, obs>>

\* create_subprocess_exec returns the process.
FSpawned ==
    /\ fPc = "spawn"
    /\ ~fCancel
    /\ ingest_backoff' = 1
    /\ ingestStatus' = "running"
    /\ fPc' = "bcast_running"
    /\ UNCHANGED <<sigVars, format, audio_queue, clients, cfgVars, subVars, fCancel,
                   current_fmt,
                   process, liveProcs, idle_signaled, nread, linkVars,
                   recvVars, sendVars, obs>>

\* broadcast_status("error", "ffmpeg not found") returns.
FNotFoundBroadcast ==
    /\ fPc = "bcast_nf"
    /\ BroadcastRuns(fCancel)
    /\ Broadcast
    /\ fPc' = "sleep_nf"
    /\ UNCHANGED <<sigVars, format, audio_queue, cfgVars, subVars, fCancel, current_fmt,
                   process,
                   liveProcs, idle_signaled, ingest_backoff, nread,
                   ingestStatus, linkVars, recvVars, sendVars, obs>>

\* The backoff sleep after FileNotFoundError returns; continue.
FNotFoundSlept(installed) ==
    /\ fPc = "sleep_nf"
    /\ ~fCancel
    /\ ingest_backoff' = Min(ingest_backoff * 2, max_backoff_seconds)
    /\ LoopTop(installed)
    /\ UNCHANGED <<sigVars, format, audio_queue, clients, cfgVars, subVars, fCancel,
                   idle_signaled, nread, linkVars, recvVars, sendVars, obs>>

\* broadcast_status("running") returns; enter the try block and the read loop.
FRunningBroadcast ==
    /\ fPc = "bcast_running"
    /\ BroadcastRuns(fCancel)
    /\ Broadcast
    /\ ReadLoopTop
    /\ UNCHANGED <<stop_event, stream_end_event, format, audio_queue, cfgVars, subVars,
                   fCancel,
                   current_fmt, idle_signaled, ingest_backoff, nread,
                   linkVars, recvVars, sendVars, obs>>

\* The read returns bytes: clear STREAM_END and idle_signaled, put the chunk.
FReadChunk ==
    /\ fPc = "read"
    /\ ~fCancel
    /\ process = "alive"
    /\ nread < lim.chunks
    /\ LET chunk == [id |-> nread + 1, fmt |-> current_fmt, for |-> 0,
                     kept |-> {}, stale |-> FALSE, old |-> restart_ingest_event]
       IN  /\ audio_queue' = put(audio_queue, chunk)
           /\ obs' = IF Len(audio_queue.queue) >= audio_queue.maxsize
                     THEN [obs EXCEPT !.droppedIds = @ \cup {chunk.id}, !.fails = 0]
                     ELSE [obs EXCEPT !.fails = 0]
    /\ nread' = nread + 1
    /\ stream_end_event' = FALSE
    /\ idle_signaled' = FALSE
    /\ ReadLoopTop
    /\ UNCHANGED <<stop_event, format, clients, cfgVars, subVars, fCancel, current_fmt,
                   ingest_backoff, linkVars, recvVars, sendVars>>

\* A faulty idle branch that does not test idle_signaled;
\* C23_IdleSignaledOnce must tell it from FReadTimeout.
FReadTimeoutIdleAgain(idle) ==
    /\ fPc = "read"
    /\ ~fCancel
    /\ process = "alive"
    /\ IF stop_event
       THEN /\ EnterFinally("wait", "sleep")
            /\ UNCHANGED <<stream_end_event, idle_signaled, restart_ingest_event,
                           ingestStatus>>
       ELSE IF idle
       THEN /\ stream_end_event' = TRUE
            /\ idle_signaled' = TRUE
            /\ EnterFinally("wait", "sleep")
            /\ UNCHANGED <<restart_ingest_event, ingestStatus>>
       ELSE /\ ReadLoopTop
            /\ UNCHANGED <<stream_end_event, idle_signaled>>
    /\ end_task' = IF end_task = "pending" /\ stream_end_event' /\ ~stream_end_event
                   THEN "done" ELSE end_task
    /\ UNCHANGED <<stop_event, format, audio_queue, clients, cfgVars, subVars, fCancel,
                   current_fmt, ingest_backoff, nread, linkVars, recvVars,
                   sPc, sResult, sChunk, audio_task, audioResult, obs>>

\* The read times out after read_poll_seconds.  idle: stop_timeout has passed
\* since last_data_ts.
FReadTimeout(idle) ==
    /\ fPc = "read"
    /\ ~fCancel
    /\ process = "alive"
    /\ IF stop_event
       THEN /\ EnterFinally("wait", "sleep")
            /\ UNCHANGED <<stream_end_event, idle_signaled, restart_ingest_event,
                           ingestStatus>>
       ELSE IF idle /\ ~idle_signaled
       THEN /\ stream_end_event' = TRUE
            /\ idle_signaled' = TRUE
            /\ EnterFinally("wait", "sleep")
            /\ UNCHANGED <<restart_ingest_event, ingestStatus>>
       ELSE /\ ReadLoopTop
            /\ UNCHANGED <<stream_end_event, idle_signaled>>
    /\ end_task' = IF end_task = "pending" /\ stream_end_event' /\ ~stream_end_event
                   THEN "done" ELSE end_task
    /\ UNCHANGED <<stop_event, format, audio_queue, clients, cfgVars, subVars, fCancel,
                   current_fmt, ingest_backoff, nread, linkVars, recvVars,
                   sPc, sResult, sChunk, audio_task, audioResult, obs>>

\* The read returns b"": the transcoder closed its stdout.
FReadEof ==
    /\ fPc = "read"
    /\ ~fCancel
    /\ process \in {"alive", "exited"}
    /\ stream_end_event' = (stream_end_event \/ ~stop_event)
    /\ end_task' = IF end_task = "pending" /\ ~stop_event THEN "done" ELSE end_task
    /\ EnterFinally("wait", "sleep")
    /\ obs' = (IF stop_event THEN obs ELSE run_failed(obs))
    /\ UNCHANGED <<stop_event, restart_ingest_event, format, audio_queue, clients,
                   cfgVars, subVars, fCancel, current_fmt, idle_signaled, ingest_backoff,
                   nread, ingestStatus, linkVars, recvVars, sPc, sResult,
                   sChunk, audio_task, audioResult>>

\* The read raises: except Exception, status=error unless STOP is set.
FReadError ==
    /\ fPc = "read"
    /\ ~fCancel
    /\ IF stop_event
       THEN /\ EnterFinally("wait", "sleep")
            /\ UNCHANGED ingestStatus
       ELSE /\ fPc' = "bcast_err"
            /\ ingestStatus' = "error"
            /\ UNCHANGED <<process, liveProcs>>
    /\ obs' = (IF stop_event THEN obs ELSE run_failed(obs))
    /\ UNCHANGED <<sigVars, format, audio_queue, clients, cfgVars, subVars, fCancel,
                   current_fmt,
                   idle_signaled, ingest_backoff, nread, linkVars, recvVars,
                   sendVars>>

\* broadcast_status("error", "ffmpeg ingest failed") returns; finally.
FErrorBroadcast ==
    /\ fPc = "bcast_err"
    /\ BroadcastRuns(fCancel)
    /\ Broadcast
    /\ EnterFinally("wait", "sleep")
    /\ UNCHANGED <<sigVars, format, audio_queue, cfgVars, subVars, fCancel, current_fmt,
                   idle_signaled, ingest_backoff, nread, ingestStatus,
                   linkVars, recvVars, sendVars, obs>>

\* process.wait() returns (in the finally clause).
FWaited ==
    /\ fPc \in {"wait", "wait_c"}
    /\ fPc = "wait" => ~fCancel
    /\ process' = "reaped"
    /\ fPc' = (IF fPc = "wait" THEN "sleep" ELSE "sleep_c")
    /\ UNCHANGED <<sigVars, format, audio_queue, clients, cfgVars, subVars, fCancel,
                   current_fmt,
                   liveProcs, idle_signaled, ingest_backoff, nread,
                   ingestStatus, linkVars, recvVars, sendVars, obs>>

\* The sleep of the finally clause returns: double the backoff, next pass
\* of the outer loop (or re-raise the CancelledError being propagated).
FSlept(installed) ==
    /\ fPc \in {"sleep", "sleep_c"}
    /\ fPc = "sleep" => ~fCancel
    /\ ingest_backoff' = Min(ingest_backoff * 2, max_backoff_seconds)
    /\ IF fPc = "sleep"
       THEN LoopTop(installed)
       ELSE /\ fPc' = "done"
            /\ UNCHANGED <<current_fmt, process, liveProcs, ingestStatus>>
    /\ UNCHANGED <<sigVars, format, audio_queue, clients, cfgVars, subVars, fCancel,
                   idle_signaled, nread, linkVars, recvVars, sendVars, obs>>

\* The CancelledError of the shutdown is delivered at the await the task is
\* suspended at.
FCancelled ==
    /\ fCancel
    /\ fPc \notin {"done", "wait_c", "sleep_c"}
    /\ fPc \in {"starting", "bcast_nf", "bcast_running", "bcast_err"} => clients # {}
    /\ fCancel' = FALSE
    /\ IF fPc \in {"read", "bcast_err"}
       THEN \* inside the try block: except CancelledError re-raises, finally runs
            EnterFinally("wait_c", "sleep_c")
       ELSE IF fPc = "spawn"
       THEN \* create_subprocess_exec closes the transport it was setting up
            /\ process' = "killed"
            /\ liveProcs' = liveProcs - 1
            /\ fPc' = "done"
       ELSE \* outside the try block, or inside the finally clause
            /\ fPc' = "done"
            /\ UNCHANGED <<process, liveProcs>>
    /\ UNCHANGED <<sigVars, format, audio_queue, clients, cfgVars, subVars, current_fmt,
                   idle_signaled, ingest_backoff, nread, ingestStatus,
                   linkVars, recvVars, sendVars, obs>>

\* The transcoder process exits by itself.
ProcessExits ==
    /\ process = "alive"
    /\ fPc # "spawn"
    /\ process' = "exited"
    /\ liveProcs' = liveProcs - 1
    /\ UNCHANGED <<sigVars, format, audio_queue, clients, cfgVars, subVars, fPc, fCancel,
                   current_fmt, idle_signaled, ingest_backoff, nread,
                   ingestStatus, linkVars, recvVars, sendVars, obs>>


\* ----------------------------------------------------------- asr_link
\* How a task or a session can end.  Exceptions are what a task raises;
\* the other results are normal returns.
Exceptions == {"noaudio", "closed_err", "closed_ok", "refused", "attr", "config",
               "connect", "cancelled"}

\* The except clause of asr_link that catches an exception (none: the try
\* block was left without one).
except_clause(exc) ==
    IF exc = "none" THEN "none"
    ELSE IF exc = "cancelled" THEN "cancelled"
    ELSE IF exc = "noaudio" THEN "noaudio"
    ELSE IF exc \in {"closed_err", "refused"} THEN "closed"
    ELSE "other"

\* The session (or the connection attempt) ends with `cause`, handled by
\* except_clause(exc).
EndObs(o, cause) ==
    [o EXCEPT !.endCause = cause, !.endWaiting = FALSE, !.endDrained = FALSE,
              !.endDiscarded = FALSE, !.endRestart = FALSE,
              !.capPrev = <<<<>>, FALSE>>, !.capCur = <<<<>>, FALSE>>,
              !.synPrev = <<<<>>, FALSE>>, !.synCur = <<<<>>, FALSE>>,
              !.bcastTypes = {}]

\* The chunks that are in the queue when a session ends are marked.
Stale(c) == [c EXCEPT !.stale = TRUE]

StaleQueue(q) == [q EXCEPT !.queue = [i \in 1..Len(@) |-> Stale(@[i])]]

\* The finally clause with the socket in state w: graceful stop when the
\* socket is not closed, (STOP or stream_started) and no ready_to_stop was
\* seen; then close.  graceful_stop sends the empty frame unless the send
\* raises (the connection is closing or the peer is gone).
GracefulStop(w) ==
    /\ w \in {"open", "closing"}
    /\ (stop_event \/ stream_started)
    /\ ~ready_to_stop_seen

EmptyAfterFinally(w) == emptySent \/ (GracefulStop(w) /\ w = "open" /\ peer = "up")

WsAfterFinally(w) == IF w = "none" THEN "none" ELSE "closed"

SocketsAfterFinally(w) == IF w \in {"open", "closing"} THEN openSockets - 1 ELSE openSockets

FinallyObs(o, w) ==
    [o EXCEPT !.exitNeedStop = (w # "none" /\ (stop_event \/ stream_started)
                                /\ ~ready_to_stop_seen),
              !.exitEmpty = EmptyAfterFinally(w)]

\* Faulty except clauses that all leave the pending chunk in place;
\* C7_RetrievedChunks must tell them from HandlerPending.
HandlerPendingKeep(clause, p) ==
    IF p = NoChunk THEN NoChunk ELSE [p EXCEPT !.kept = @ \cup {clause}]

\* What the except clauses leave of the pending chunk and of the queue:
\* NoAudioTimeout and ConnectionClosedError / ConnectionRefusedError discard
\* the pending chunk and drain the queue, the other clauses touch neither.
HandlerPending(clause, p) ==
    IF clause \in {"noaudio", "closed"} \/ p = NoChunk THEN NoChunk
    ELSE [p EXCEPT !.kept = @ \cup {clause}]

\* A faulty NoAudioTimeout clause that leaves the queue as it is;
\* C22_NoAudioEnd must tell it from HandlerQueue.
HandlerQueueKeepsOnNoAudio(clause, q) ==
    IF clause = "closed" THEN clear_audio_queue(q) ELSE q

HandlerQueue(clause, q) ==
    IF clause \in {"noaudio", "closed"} THEN clear_audio_queue(q) ELSE q

HandlerObs(clause, o) ==
    [o EXCEPT !.endDrained = (clause \in {"noaudio", "closed"}),
              !.endDiscarded = (clause \in {"noaudio", "closed"}),
              !.endRestart = (clause = "closed"),
              !.linkFails = (IF clause \in {"noaudio", "closed"} THEN 0 ELSE @)]

\* A faulty loop that connects without waiting for a chunk;
\* C17_ConnectOnlyWithChunk must tell it from LinkTop.
LinkTopConnectsAtOnce(q, p, o, w) ==
    /\ aPc' = (IF stop_event THEN "done" ELSE "connect")
    /\ ws' = (IF stop_event THEN w ELSE "none")
    /\ stream_started' = (stop_event /\ stream_started)
    /\ ready_to_stop_seen' = (stop_event /\ ready_to_stop_seen)
    /\ audio_queue' = q
    /\ pending_chunk' = p
    /\ obs' = o

\* Top of the outer loop with queue q, pending chunk p, observation o and
\* socket state w: leave when STOP is set, else reset the session flags and
\* take the initial chunk out of the queue when none is pending.
LinkTop(q, p, o, w) ==
    IF stop_event
    THEN /\ aPc' = "done"
         /\ ws' = w
         /\ audio_queue' = q
         /\ pending_chunk' = p
         /\ obs' = o
         /\ UNCHANGED <<stream_started, ready_to_stop_seen>>
    ELSE /\ ws' = "none"
         /\ stream_started' = FALSE
         /\ ready_to_stop_seen' = FALSE
         /\ IF p # NoChunk
            THEN /\ aPc' = "connect"
                 /\ audio_queue' = q
                 /\ pending_chunk' = p
                 /\ obs' = o
            ELSE IF q.queue # <<>>
            THEN /\ aPc' = "connect"
                 /\ audio_queue' = get_rest(q)
                 /\ pending_chunk' = [get_item(q) EXCEPT !.for = sess + 1]
                 /\ obs' = o
            ELSE /\ aPc' = "get"
                 /\ audio_queue' = wait_getter(q, "A")
                 /\ pending_chunk' = p
                 /\ obs' = o

\* First step of the task.
AStart ==
    /\ aPc = "start"
    /\ ~aCancel
    /\ LinkTop(audio_queue, pending_chunk, obs, ws)
    /\ UNCHANGED <<sigVars, format, clients, cfgVars, subVars, ingestVars, aCancel, aExc,
                   asr_backoff, openSockets, peer, sess, sessFmt, sentLog, emptySent,
                   recvVars, sendVars>>

\* audio_queue.get() of the outer loop is woken: take the chunk, or wait
\* again when the queue is empty.
AGetResumed ==
    /\ aPc = "get"
    /\ ~aCancel
    /\ audio_queue.wokenA
    /\ LET q == unwake(audio_queue, "A")
       IN  IF q.queue = <<>>
           THEN /\ audio_queue' = wait_getter(q, "A")
                /\ UNCHANGED <<aPc, pending_chunk>>
           ELSE /\ audio_queue' = get_rest(q)
                /\ pending_chunk' = [get_item(q) EXCEPT !.for = sess + 1]
                /\ aPc' = "connect"
    /\ UNCHANGED <<obs, sigVars, format, clients, cfgVars, subVars, ingestVars, aCancel,
                   aExc,
                   asr_backoff, ws, openSockets, peer, stream_started,
                   ready_to_stop_seen, sess, sessFmt, sentLog, emptySent, recvVars,
                   sendVars>>

\* websockets.connect succeeds: the async with block is entered.
AConnected ==
    /\ aPc = "connect"
    /\ ~aCancel
    /\ sess < lim.sess
    /\ sess' = sess + 1
    /\ ws' = "open"
    /\ openSockets' = openSockets + 1
    /\ peer' = "up"
    /\ stream_started' = FALSE
    /\ ready_to_stop_seen' = FALSE
    /\ last_caption' = <<<<>>, FALSE>>
    /\ last_status' = ""
    /\ sentLog' = <<>>
    /\ emptySent' = FALSE
    /\ sessFmt' = "none"
    /\ obs' = [EndObs(obs, "none") EXCEPT !.exitNeedStop = FALSE, !.exitEmpty = FALSE]
    /\ aPc' = "config"
    /\ UNCHANGED <<sigVars, format, audio_queue, clients, cfgVars, subVars, ingestVars,
                   aCancel,
                   aExc, pending_chunk, asr_backoff, last_translation, rPc, rResult,
                   asrMsgs, sendVars>>

\* websockets.connect raises: ConnectionRefusedError (refused) or another
\* error (timeout, invalid handshake).  No socket was opened.
AConnectFails(exc) ==
    /\ aPc = "connect"
    /\ ~aCancel
    /\ sess < lim.sess
    /\ sess' = sess + 1
    /\ aExc' = exc
    /\ obs' = [EndObs(obs, exc) EXCEPT
                  !.endWaiting = (exc = "refused"),
                  !.linkFails = (IF except_clause(exc) = "other" THEN @ + 1 ELSE @)]
    /\ aPc' = (IF except_clause(exc) = "closed" THEN "bcast_waiting" ELSE "bcast_err")
    /\ UNCHANGED <<sigVars, format, audio_queue, clients, cfgVars, subVars, ingestVars,
                   aCancel,
                   pending_chunk,
                   asr_backoff, ws, openSockets, peer, stream_started,
                   ready_to_stop_seen, sessFmt, sentLog, emptySent, recvVars, sendVars>>

\* The config message arrives and parses: set the format from useAudioWorklet.
AConfigReceived(use_worklet) ==
    /\ aPc = "config"
    /\ ~aCancel
    /\ peer = "up"
    /\ format' = (IF use_worklet THEN "pcm" ELSE "webm")
    /\ sessFmt' = format'
    /\ obs' = [obs EXCEPT !.linkFails = 0]
    /\ aPc' = "bcast_running"
    /\ UNCHANGED <<sigVars, audio_queue, clients, cfgVars, subVars, ingestVars, aCancel,
                   aExc,
                   pending_chunk, asr_backoff, ws, openSockets, peer, stream_started,
                   ready_to_stop_seen, sess, sentLog, emptySent, recvVars, sendVars>>

\* A faulty handling of a failed config receive that selects pcm before it
\* gives up; C16_FormatWrittenAfterConfig must tell it from AConfigFails.
AConfigFailsSelectsPcm ==
    /\ aPc = "config"
    /\ ~aCancel
    /\ format' = "pcm"
    /\ aExc' = "config"
    /\ obs' = EndObs(obs, "config")
    /\ ws' = "closing"
    /\ aPc' = "closing"
    /\ UNCHANGED <<sigVars, audio_queue, clients, cfgVars, subVars, ingestVars, aCancel,
                   pending_chunk, asr_backoff, openSockets, peer, stream_started,
                   ready_to_stop_seen, sess, sessFmt, sentLog, emptySent, recvVars,
                   sendVars>>

\* The config receive fails (5 s timeout, connection closed, not JSON):
\* RuntimeError leaves the async with block, which closes the socket.
AConfigFails ==
    /\ aPc = "config"
    /\ ~aCancel
    /\ aExc' = "config"
    /\ obs' = EndObs(obs, "config")
    /\ ws' = "closing"
    /\ aPc' = "closing"
    /\ UNCHANGED <<sigVars, format, audio_queue, clients, cfgVars, subVars, ingestVars,
                   aCancel,
                   pending_chunk,
                   asr_backoff, openSockets, peer, stream_started,
                   ready_to_stop_seen, sess, sessFmt, sentLog, emptySent, recvVars,
                   sendVars>>

\* broadcast_status("running", "ASR connected") returns: reset the backoff,
\* hand the pending chunk to the sender, start sender and receiver and wait.
ARunningBroadcast ==
    /\ aPc = "bcast_running"
    /\ BroadcastRuns(aCancel)
    /\ Broadcast
    /\ asr_backoff' = 1
    /\ sChunk' = pending_chunk
    /\ pending_chunk' = NoChunk
    /\ sPc' = "start"
    /\ rPc' = "recv"
    /\ last_translation' = <<<<>>, FALSE>>
    /\ aPc' = "wait"
    /\ UNCHANGED <<sigVars, format, audio_queue, cfgVars, subVars, ingestVars, aCancel,
                   aExc, ws,
                   openSockets, peer, stream_started, ready_to_stop_seen, sess, sessFmt,
                   sentLog, emptySent, last_status, last_caption, rResult, asrMsgs,
                   sResult, audio_task, audioResult, end_task, obs>>

\* The audio_task of a sender that is cancelled stays in get().
Detach(q) ==
    IF audio_task = "pending" THEN orphan_getter(q)
    ELSE IF audio_task = "new" THEN [q EXCEPT !.wokenO = @ + 1]
    ELSE q

StopSubtasks ==
    /\ sPc' = "idle"
    /\ rPc' = "idle"
    /\ sResult' = "none"
    /\ rResult' = "none"
    /\ sChunk' = NoChunk
    /\ audio_task' = "none"
    /\ audioResult' = NoChunk
    /\ end_task' = "none"

\* asyncio.wait returns: sender or receiver is done.  Cancel the other,
\* raise the exception of a done task; the async with block closes the socket.
AWaitDone ==
    /\ aPc = "wait"
    /\ ~aCancel
    /\ sPc = "done" \/ rPc = "done"
    /\ LET results == (IF sPc = "done" THEN {sResult} ELSE {})
                          \cup (IF rPc = "done" THEN {rResult} ELSE {})
           raised == results \cap Exceptions
       IN  \E exc \in (IF raised = {} THEN {"none"} ELSE raised) :
              /\ aExc' = exc
              /\ obs' = EndObs(obs, IF exc # "none" THEN exc
                                    ELSE IF rPc = "done" THEN rResult ELSE sResult)
    /\ audio_queue' = StaleQueue(Detach(audio_queue))
    /\ StopSubtasks
    /\ sentLog' = <<>>
    /\ ws' = "closing"
    /\ aPc' = "closing"
    /\ UNCHANGED <<sigVars, format, clients, cfgVars, subVars, ingestVars, aCancel,
                   pending_chunk,
                   asr_backoff, openSockets, peer, stream_started, ready_to_stop_seen,
                   sess, sessFmt, emptySent, last_status, last_caption,
                   last_translation, asrMsgs>>

\* The close of the async with block returns: the socket is closed.  The
\* except clause runs up to its first await; NoAudioTimeout and the
\* fall-through have none, so the finally clause and the next pass of the
\* loop follow at once.
AClosed ==
    /\ aPc = "closing"
    /\ ~aCancel
    /\ openSockets' = openSockets - 1
    /\ LET clause == except_clause(aExc)
       IN  IF clause \in {"closed", "other"}
           THEN /\ aPc' = (IF clause = "closed" THEN "bcast_waiting" ELSE "bcast_err")
                /\ ws' = "closed"
                /\ obs' = [obs EXCEPT
                              !.endWaiting = (clause = "closed"),
                              !.linkFails = (IF clause = "other" THEN @ + 1 ELSE @)]
                /\ UNCHANGED <<audio_queue, pending_chunk, asr_backoff, stream_started,
                               ready_to_stop_seen, emptySent>>
           ELSE /\ asr_backoff' = (IF clause = "noaudio" THEN 1 ELSE asr_backoff)
                /\ emptySent' = EmptyAfterFinally("closed")
                /\ LET q == HandlerQueue(clause, audio_queue)
                       p == HandlerPending(clause, pending_chunk)
                       o == FinallyObs(HandlerObs(clause, obs), "closed")
                   IN  IF clause = "cancelled"
                       THEN /\ aPc' = "done"
                            /\ ws' = "closed"
                            /\ obs' = o
                            /\ UNCHANGED <<audio_queue, pending_chunk, stream_started,
                                           ready_to_stop_seen>>
                       ELSE LinkTop(q, p, o, "closed")
    /\ UNCHANGED <<sigVars, format, clients, cfgVars, subVars, ingestVars, aCancel, aExc,
                   peer,
                   sess, sessFmt, sentLog, recvVars, sendVars>>

\* broadcast_status("waiting") returns: reset the backoff, discard the
\* pending chunk, drain the queue, set RESTART_INGEST, sleep 1 s.
AWaitingBroadcast ==
    /\ aPc = "bcast_waiting"
    /\ BroadcastRuns(aCancel)
    /\ Broadcast
    /\ asr_backoff' = 1
    /\ pending_chunk' = HandlerPending("closed", pending_chunk)
    /\ audio_queue' = HandlerQueue("closed", audio_queue)
    /\ restart_ingest_event' = TRUE
    /\ obs' = [HandlerObs("closed", obs) EXCEPT !.endWaiting = TRUE]
    /\ aPc' = "sleep1"
    /\ UNCHANGED <<stop_event, stream_end_event, format, cfgVars, subVars, ingestVars,
                   aCancel,
                   aExc, ws, openSockets, peer, stream_started, ready_to_stop_seen,
                   sess, sessFmt, sentLog, emptySent, recvVars, sendVars>>

\* asyncio.sleep(1) returns; continue: finally, next pass of the loop.
AReconnectSlept ==
    /\ aPc = "sleep1"
    /\ ~aCancel
    /\ emptySent' = EmptyAfterFinally(ws)
    /\ openSockets' = SocketsAfterFinally(ws)
    /\ LinkTop(audio_queue, pending_chunk, FinallyObs(obs, ws), WsAfterFinally(ws))
    /\ UNCHANGED <<sigVars, format, clients, cfgVars, subVars, ingestVars, aCancel, aExc,
                   asr_backoff, peer, sess, sessFmt, sentLog, recvVars, sendVars>>

\* broadcast_status("error", "ASR link failed") returns; sleep the backoff.
AErrorBroadcast ==
    /\ aPc = "bcast_err"
    /\ BroadcastRuns(aCancel)
    /\ Broadcast
    /\ aPc' = "sleep_err"
    /\ UNCHANGED <<sigVars, format, audio_queue, cfgVars, subVars, ingestVars, aCancel,
                   aExc,
                   pending_chunk, asr_backoff, ws, openSockets, peer, stream_started,
                   ready_to_stop_seen, sess, sessFmt, sentLog, emptySent, recvVars,
                   sendVars, obs>>

\* A faulty clause that doubles the backoff without the cap;
\* C25_LinkBackoff must tell it from AErrorSlept.
AErrorSleptUncapped ==
    /\ aPc = "sleep_err"
    /\ ~aCancel
    /\ asr_backoff' = asr_backoff * 2
    /\ emptySent' = EmptyAfterFinally(ws)
    /\ openSockets' = SocketsAfterFinally(ws)
    /\ LinkTop(HandlerQueue("other", audio_queue), HandlerPending("other", pending_chunk),
               FinallyObs(HandlerObs("other", obs), ws), WsAfterFinally(ws))
    /\ UNCHANGED <<sigVars, format, clients, cfgVars, subVars, ingestVars, aCancel, aExc,
                   peer,
                   sess, sessFmt, sentLog, recvVars, sendVars>>

\* The backoff sleep returns: double the backoff; finally, next pass.
AErrorSlept ==
    /\ aPc = "sleep_err"
    /\ ~aCancel
    /\ asr_backoff' = Min(asr_backoff * 2, max_backoff_seconds)
    /\ emptySent' = EmptyAfterFinally(ws)
    /\ openSockets' = SocketsAfterFinally(ws)
    /\ LinkTop(HandlerQueue("other", audio_queue), HandlerPending("other", pending_chunk),
               FinallyObs(HandlerObs("other", obs), ws), WsAfterFinally(ws))
    /\ UNCHANGED <<sigVars, format, clients, cfgVars, subVars, ingestVars, aCancel, aExc,
                   peer,
                   sess, sessFmt, sentLog, recvVars, sendVars>>

\* The CancelledError of the shutdown is delivered at the await asr_link is
\* suspended at.  Inside the async with block the socket is closed first
\* (AClosed then runs the finally clause); elsewhere the finally clause runs
\* at once.  Sender and receiver are not cancelled by it: they end on the
\* closed socket, and an audio_task in get() stays there.
ACancelled ==
    /\ aCancel
    /\ aPc # "done"
    /\ aPc \in {"bcast_running", "bcast_waiting", "bcast_err"} => clients # {}
    /\ aCancel' = FALSE
    /\ IF aPc \in {"config", "bcast_running", "wait"}
       THEN /\ aExc' = "cancelled"
            /\ ws' = "closing"
            /\ aPc' = "closing"
            /\ audio_queue' = (IF aPc = "wait" THEN Detach(audio_queue) ELSE audio_queue)
            /\ IF aPc = "wait"
               THEN StopSubtasks
               ELSE UNCHANGED <<sendVars, rPc, rResult>>
            /\ obs' = EndObs(obs, "cancelled")
            /\ sentLog' = <<>>
            /\ UNCHANGED <<openSockets, emptySent>>
       ELSE /\ aExc' = "cancelled"
            /\ aPc' = "done"
            /\ ws' = WsAfterFinally(ws)
            /\ emptySent' = EmptyAfterFinally(ws)
            /\ openSockets' = SocketsAfterFinally(ws)
            /\ audio_queue' = (IF aPc = "get" THEN cancel_getter(audio_queue, "A")
                               ELSE audio_queue)
            /\ obs' = (IF aPc = "start" THEN obs ELSE FinallyObs(obs, ws))
            /\ UNCHANGED <<sendVars, rPc, rResult, sentLog>>
    /\ UNCHANGED <<sigVars, format, clients, cfgVars, subVars, ingestVars, pending_chunk,
                   asr_backoff, peer, stream_started, ready_to_stop_seen, sess, sessFmt,
                   last_status, last_caption, last_translation, asrMsgs>>

\* ------------------------------------------------------- asr_link.sender
\* First step of the sender: read cfg.send_budget_seconds (AttributeError
\* when cfg has no such attribute), test STOP, go on to send initial_chunk.
SenderStart ==
    /\ aPc = "wait"
    /\ sPc = "start"
    /\ IF ~send_budget_defined
       THEN /\ sPc' = "done"
            /\ sResult' = "attr"
       ELSE IF stop_event
       THEN /\ sPc' = "done"
            /\ sResult' = "returned"
       ELSE /\ sPc' = "send"
            /\ UNCHANGED sResult
    /\ UNCHANGED <<sigVars, format, audio_queue, clients, cfgVars, subVars, ingestVars,
                   linkVars,
                   recvVars, sChunk, audio_task, audioResult, end_task, obs>>

\* ws.send(chunk) returns or raises ConnectionClosed.
SenderSend ==
    /\ aPc = "wait"
    /\ sPc = "send"
    /\ IF peer = "up"
       THEN /\ sentLog' = Append(sentLog, sChunk)
            /\ obs' = [obs EXCEPT !.lastSent = sChunk.id]
            /\ stream_started' = TRUE
            /\ sChunk' = NoChunk
            /\ sPc' = "loop"
            /\ UNCHANGED sResult
       ELSE /\ sPc' = "done"
            /\ sResult' = peer
            /\ UNCHANGED <<sentLog, stream_started, sChunk, obs>>
    /\ UNCHANGED <<sigVars, format, audio_queue, clients, cfgVars, subVars, ingestVars, aPc,
                   aCancel, aExc, pending_chunk, asr_backoff, ws, openSockets, peer,
                   ready_to_stop_seen, sess, sessFmt, emptySent, recvVars, audio_task,
                   audioResult, end_task>>

\* Top of the sender loop with no chunk in hand: return when STOP is set,
\* NoAudioTimeout when STREAM_END is set, else create audio_task and
\* end_task and wait for the first of them.
SenderLoop ==
    /\ aPc = "wait"
    /\ sPc = "loop"
    /\ IF stop_event
       THEN /\ sPc' = "done"
            /\ sResult' = "returned"
            /\ UNCHANGED <<audio_task, end_task>>
       ELSE IF stream_end_event
       THEN /\ sPc' = "done"
            /\ sResult' = "noaudio"
            /\ UNCHANGED <<audio_task, end_task>>
       ELSE /\ sPc' = "wait"
            /\ audio_task' = "new"
            /\ end_task' = "pending"
            /\ UNCHANGED sResult
    /\ UNCHANGED <<sigVars, format, audio_queue, clients, cfgVars, subVars, ingestVars,
                   linkVars,
                   recvVars, sChunk, audioResult, obs>>

\* audio_queue.get() of the audio_task: first step of the task, or the step
\* after its future was resolved.  Take a chunk, or wait when the queue is empty.
AudioTaskRuns ==
    /\ \/ audio_task = "new"
       \/ audio_task = "pending" /\ audio_queue.wokenS
    /\ LET q == IF audio_task = "new" THEN audio_queue ELSE unwake(audio_queue, "S")
       IN  IF q.queue = <<>>
           THEN /\ audio_queue' = wait_getter(q, "S")
                /\ audio_task' = "pending"
                /\ UNCHANGED <<audioResult, obs>>
           ELSE /\ audio_queue' = get_rest(q)
                /\ audio_task' = "done"
                /\ audioResult' = [get_item(q) EXCEPT !.for = sess]
                /\ UNCHANGED obs
    /\ UNCHANGED <<sigVars, format, clients, cfgVars, subVars, ingestVars, linkVars,
                   recvVars,
                   sPc, sResult, sChunk, end_task>>

\* asyncio.wait of the sender returns: a task is done, or stop_timeout
\* passed.  Cancel what is pending; NoAudioTimeout unless audio_task alone
\* is done.
SenderWakes ==
    /\ aPc = "wait"
    /\ sPc = "wait"
    /\ audio_task # "new"
    /\ audio_queue' = (IF audio_task = "pending" THEN cancel_getter(audio_queue, "S")
                       ELSE audio_queue)
    /\ IF audio_task = "done" /\ end_task # "done"
       THEN /\ sChunk' = audioResult
            /\ sPc' = "send"
            /\ UNCHANGED sResult
       ELSE /\ sPc' = "done"
            /\ sResult' = "noaudio"
            /\ UNCHANGED sChunk
    /\ audio_task' = "none"
    /\ end_task' = "none"
    /\ audioResult' = NoChunk
    /\ UNCHANGED <<sigVars, format, clients, cfgVars, subVars, ingestVars, linkVars,
                   recvVars, obs>>

\* An audio_task whose sender is gone runs: it takes the chunk at the head
\* of the queue (nobody reads its result), or waits again when the queue is empty.
OrphanGetRuns ==
    /\ audio_queue.wokenO > 0
    /\ LET q == unwake(audio_queue, "O")
       IN  IF q.queue = <<>>
           THEN /\ audio_queue' = wait_getter(q, "O")
                /\ UNCHANGED obs
           ELSE /\ audio_queue' = get_rest(q)
                /\ obs' = [obs EXCEPT !.stolenIds = @ \cup {get_item(q).id}]
    /\ UNCHANGED <<sigVars, format, clients, cfgVars, subVars, ingestVars, linkVars,
                   recvVars,
                   sendVars>>


\* ----------------------------------------------------- asr_link.receiver
\* A text is a sequence of words: " ".join of the non-empty parts is the
\* concatenation, and strip() leaves a sequence of words unchanged.
NoKey == <<<<>>, FALSE>>

Join(a, b) == a \o b

\* Scan of payload["lines"] from the last line to the first: the first
\* non-empty text, the first non-empty translation.
RECURSIVE LastText(_)
LastText(lines) ==
    IF lines = <<>> THEN <<>>
    ELSE IF lines[Len(lines)].text # <<>> THEN lines[Len(lines)].text
    ELSE LastText(SubSeq(lines, 1, Len(lines) - 1))

RECURSIVE LastTranslation(_)
LastTranslation(lines) ==
    IF lines = <<>> THEN <<>>
    ELSE IF lines[Len(lines)].translation # <<>> THEN lines[Len(lines)].translation
    ELSE LastTranslation(SubSeq(lines, 1, Len(lines) - 1))

\* Payloads the ASR sends.  type "" stands for a payload with no (or another)
\* type field; text and partial are the fields of a typed caption.
Payload(type, status, lines, buf, buftr, text, partial) ==
    [type |-> type, status |-> status, lines |-> lines, buffer_transcription |-> buf,
     buffer_translation |-> buftr, text |-> text, partial |-> partial]

Line(text, translation) == [text |-> text, translation |-> translation]

ReadyToStop == Payload("ready_to_stop", "", <<>>, <<>>, <<>>, <<>>, FALSE)

TypedMsgs ==
    {Payload("caption", "", <<>>, <<>>, <<>>, <<"a">>, partial) : partial \in BOOLEAN}
        \cup {Payload("status", "s1", <<>>, <<>>, <<>>, <<>>, FALSE)}

FreeMsgs ==
    {Payload("", status, lines, buf, buftr, <<>>, FALSE) :
        status \in {"", "s1"},
        lines \in {<<>>, <<Line(<<"a">>, <<>>)>>, <<Line(<<"a">>, <<"t">>), Line(<<>>, <<>>)>>},
        buf \in {<<>>, <<"b">>},
        buftr \in {<<>>, <<"u">>}}

AllMsgs == {ReadyToStop} \cup TypedMsgs \cup FreeMsgs

\* The payloads of the relay specification: one of each kind.
RelayMsgs ==
    {ReadyToStop, Payload("", "s1", <<Line(<<"a">>, <<"t">>)>>, <<>>, <<>>, <<>>, FALSE)}

\* What the receiver derives from a free-form payload.
CaptionKey(m) ==
    <<Join(LastText(m.lines), m.buffer_transcription), m.buffer_transcription # <<>>>>

TranslationKey(m) ==
    <<Join(LastTranslation(m.lines), m.buffer_translation), m.buffer_translation # <<>>>>

\* A faulty test that broadcasts every non-empty caption;
\* C9_SynthesisedCaptionsDiffer must tell it from EmitCaption.
EmitCaptionAlways(key, last) == key[1] # <<>>

\* Whether the receiver broadcasts the synthesised caption with key `key`
\* when the last one it broadcast has key `last`.
EmitCaption(key, last) == key[1] # <<>> /\ key # last

EmitStatus(status, last) == status # "" /\ status # last

\* A faulty receiver that tests debug_mode after it has forwarded the typed
\* messages; C14_DebugBroadcastsNothing must tell it from BroadcastTypes.
BroadcastTypesTypedFirst(m) ==
    IF m.type = "ready_to_stop" THEN (IF debug_mode THEN {} ELSE {"ready_to_stop"})
    ELSE IF m.type \in {"caption", "status"} THEN {m.type}
    ELSE {}

\* The types of the messages the receiver broadcasts for payload m.
BroadcastTypes(m) ==
    IF m.type = "ready_to_stop" THEN (IF debug_mode THEN {} ELSE {"ready_to_stop"})
    ELSE IF debug_mode THEN {}
    ELSE IF m.type \in {"caption", "status"} THEN {m.type}
    ELSE (IF EmitStatus(m.status, last_status) THEN {"status"} ELSE {})
         \cup (IF EmitCaption(CaptionKey(m), last_caption) THEN {"caption"} ELSE {})
         \cup (IF EmitCaption(TranslationKey(m), last_translation)
               THEN {"caption_translation"} ELSE {})

\* The caption broadcast for payload m, if any: forwarded as-is or synthesised.
ForwardedCaption(m) == ~debug_mode /\ m.type = "caption"

SynthesisedCaption(m) ==
    /\ ~debug_mode
    /\ m.type \notin {"ready_to_stop", "caption", "status"}
    /\ EmitCaption(CaptionKey(m), last_caption)

CaptionObs(o, m) ==
    LET types == BroadcastTypes(m)
        o1 == [o EXCEPT !.bcastTypes = @ \cup types]
    IN  IF ForwardedCaption(m)
        THEN [o1 EXCEPT !.capPrev = o.capCur, !.capCur = <<m.text, m.partial>>]
        ELSE IF SynthesisedCaption(m)
        THEN [o1 EXCEPT !.capPrev = o.capCur, !.capCur = CaptionKey(m),
                        !.synPrev = o.synCur, !.synCur = CaptionKey(m)]
        ELSE o1

\* The receiver gets payload m from the ASR and handles it: ready_to_stop
\* ends the receiver, typed caption/status are forwarded, anything else goes
\* through the status / caption / translation extraction with its
\* de-duplication.  With --debug only ready_to_stop has an effect.
ReceiverMessage(m) ==
    /\ aPc = "wait"
    /\ rPc = "recv"
    /\ peer = "up"
    /\ asrMsgs < lim.msgs
    /\ asrMsgs' = asrMsgs + 1
    /\ IF BroadcastTypes(m) # {} THEN Broadcast ELSE UNCHANGED clients
    /\ obs' = CaptionObs(obs, m)
    /\ IF m.type = "ready_to_stop"
       THEN /\ ready_to_stop_seen' = TRUE
            /\ rPc' = "done"
            /\ rResult' = "rts"
            /\ UNCHANGED <<last_status, last_caption, last_translation>>
       ELSE /\ UNCHANGED <<ready_to_stop_seen, rPc, rResult>>
            /\ IF debug_mode \/ m.type \in {"caption", "status"}
               THEN UNCHANGED <<last_status, last_caption, last_translation>>
               ELSE /\ last_status' = (IF EmitStatus(m.status, last_status)
                                       THEN m.status ELSE last_status)
                    /\ last_caption' = (IF EmitCaption(CaptionKey(m), last_caption)
                                        THEN CaptionKey(m) ELSE last_caption)
                    /\ last_translation' =
                           (IF EmitCaption(TranslationKey(m), last_translation)
                            THEN TranslationKey(m) ELSE last_translation)
    /\ UNCHANGED <<sigVars, format, audio_queue, cfgVars, subVars, ingestVars, aPc,
                   aCancel, aExc,
                   pending_chunk, asr_backoff, ws, openSockets, peer, stream_started,
                   sess, sessFmt, sentLog, emptySent, sendVars>>

\* The receiver finds the uplink closed by the peer: the iteration ends
\* (close code 1000/1001) or raises ConnectionClosedError.
ReceiverSeesClose ==
    /\ aPc = "wait"
    /\ rPc = "recv"
    /\ peer # "up"
    /\ rPc' = "done"
    /\ rResult' = (IF peer = "closed_ok" THEN "eof" ELSE "closed_err")
    /\ UNCHANGED <<sigVars, format, audio_queue, clients, cfgVars, subVars, ingestVars,
                   linkVars,
                   last_status, last_caption, last_translation, asrMsgs, sendVars, obs>>

\* The ASR closes the uplink, normally (ok) or with an error.
PeerCloses(ok) ==
    /\ ws = "open"
    /\ peer = "up"
    /\ peer' = (IF ok THEN "closed_ok" ELSE "closed_err")
    /\ UNCHANGED <<sigVars, format, audio_queue, clients, cfgVars, subVars, ingestVars, aPc,
                   aCancel, aExc, pending_chunk, asr_backoff, ws, openSockets,
                   stream_started, ready_to_stop_seen, sess, sessFmt, sentLog, emptySent,
                   recvVars, sendVars, obs>>

\* ------------------------------------------------- create_app.lifespan
\* Shutdown: set STOP and cancel both tasks.
Shutdown ==
    /\ ~stop_event
    /\ stop_event' = TRUE
    /\ fCancel' = (fPc # "done")
    /\ aCancel' = (aPc # "done")
    /\ UNCHANGED <<stream_end_event, restart_ingest_event, format, audio_queue, clients,
                   cfgVars, subVars, fPc, current_fmt, process, liveProcs, idle_signaled,
                   ingest_backoff, nread, ingestStatus, aPc, aExc,
                   pending_chunk, asr_backoff, ws, openSockets, peer, stream_started,
                   ready_to_stop_seen, sess, sessFmt, sentLog, emptySent, recvVars,
                   sendVars, obs>>

\* State after create_app and the start of the lifespan: both tasks created,
\* neither has run.
InitCommon ==
    /\ stop_event = FALSE
    /\ stream_end_event = FALSE
    /\ restart_ingest_event = FALSE
    /\ format = "webm"
    /\ audio_queue = EmptyQueue
    /\ clients = {}
    /\ stalled = {}
    /\ bcast = [c \in Callers |-> IdleBroadcast]
    /\ bounces = 0
    /\ fPc = "starting"
    /\ fCancel = FALSE
    /\ current_fmt = "none"
    /\ process = "none"
    /\ liveProcs = 0
    /\ idle_signaled = FALSE
    /\ ingest_backoff = 1
    /\ nread = 0
    /\ ingestStatus = "starting"
    /\ aPc = "start"
    /\ aCancel = FALSE
    /\ aExc = "none"
    /\ pending_chunk = NoChunk
    /\ asr_backoff = 1
    /\ ws = "none"
    /\ openSockets = 0
    /\ peer = "up"
    /\ stream_started = FALSE
    /\ ready_to_stop_seen = FALSE
    /\ last_status = ""
    /\ last_caption = NoKey
    /\ last_translation = NoKey
    /\ sPc = "idle"
    /\ sResult = "none"
    /\ sChunk = NoChunk
    /\ audio_task = "none"
    /\ audioResult = NoChunk
    /\ end_task = "none"
    /\ rPc = "idle"
    /\ rResult = "none"
    /\ asrMsgs = 0
    /\ sess = 0
    /\ sessFmt = "none"
    /\ sentLog = <<>>
    /\ emptySent = FALSE
    /\ obs = ObsInit

Init ==
    /\ InitCommon
    /\ send_budget_defined \in BOOLEAN
    /\ debug_mode = FALSE
    /\ lim = [chunks |-> MaxChunks, sess |-> MaxSess, msgs |-> MaxMsgs,
              bcasts |-> 0, bounces |-> 0, fails |-> 0]

\* ffmpeg_reader with a transcoder binary that is installed and a transcoder
\* that neither exits nor fails: it outputs chunks or stays silent.
IngestHealthy ==
    \/ FStarting(TRUE)
    \/ FSpawned
    \/ FRunningBroadcast
    \/ FReadChunk
    \/ \E idle \in BOOLEAN : FReadTimeout(idle)
    \/ FErrorBroadcast
    \/ FWaited
    \/ FSlept(TRUE)

\* The other steps of ffmpeg_reader: missing binary, end of output, read
\* error, exit of the transcoder, cancellation.
IngestFailing ==
    \/ FStarting(FALSE)
    \/ FNotFoundBroadcast
    \/ \E installed \in BOOLEAN : FNotFoundSlept(installed)
    \/ FSlept(FALSE)
    \/ FReadEof
    \/ FReadError
    \/ ProcessExits
    \/ FCancelled

\* asr_link with its sender, and the ASR as far as the connection goes.
Link ==
    \/ AStart
    \/ AGetResumed
    \/ AConnected
    \/ \E exc \in {"refused", "connect"} : AConnectFails(exc)
    \/ \E use_worklet \in BOOLEAN : AConfigReceived(use_worklet)
    \/ AConfigFails
    \/ ARunningBroadcast
    \/ AWaitDone
    \/ AClosed
    \/ AWaitingBroadcast
    \/ AReconnectSlept
    \/ AErrorBroadcast
    \/ AErrorSlept
    \/ SenderStart
    \/ SenderSend
    \/ SenderLoop
    \/ AudioTaskRuns
    \/ SenderWakes
    \/ OrphanGetRuns
    \/ ReceiverSeesClose
    \/ \E ok \in BOOLEAN : PeerCloses(ok)

\* The whole relay: both tasks, the ASR, the subscribers and the shutdown.
Next ==
    \/ IngestHealthy
    \/ IngestFailing
    \/ Link
    \/ ACancelled
    \/ \E m \in RelayMsgs : ReceiverMessage(m)
    \/ \E h \in Handles : Register(h) \/ Unregister(h)
    \/ Shutdown

Spec == Init /\ [][Next]_vars

\* The audio path: ingest with a healthy transcoder, asr_link and its sender.
InitFlow ==
    /\ InitCommon
    /\ send_budget_defined \in BOOLEAN
    /\ debug_mode = FALSE
    /\ lim = [chunks |-> FlowChunks, sess |-> FlowSess, msgs |-> 0,
              bcasts |-> 0, bounces |-> 0, fails |-> 0]

NextFlow == IngestHealthy \/ Link

SpecFlow == InitFlow /\ [][NextFlow]_vars

\* One session and its receiver: a cfg that has send_budget_seconds, a
\* healthy transcoder, a connection that succeeds, and every kind of payload.
InitReceiver ==
    /\ InitCommon
    /\ send_budget_defined = TRUE
    /\ debug_mode = FALSE
    /\ lim = [chunks |-> FlowChunks, sess |-> 1, msgs |-> RecvMsgs,
              bcasts |-> 0, bounces |-> 0, fails |-> 0]

NextReceiver ==
    \/ FStarting(TRUE)
    \/ FSpawned
    \/ FRunningBroadcast
    \/ FReadChunk
    \/ AStart
    \/ AGetResumed
    \/ AConnected
    \/ AConfigReceived(FALSE)
    \/ ARunningBroadcast
    \/ SenderStart
    \/ SenderSend
    \/ SenderLoop
    \/ AudioTaskRuns
    \/ SenderWakes
    \/ \E m \in AllMsgs : ReceiverMessage(m)
    \/ AWaitDone
    \/ AClosed

SpecReceiver == InitReceiver /\ [][NextReceiver]_vars

\* The session of SpecReceiver, with and without --debug.
InitDebug ==
    /\ InitCommon
    /\ send_budget_defined = TRUE
    /\ debug_mode \in BOOLEAN
    /\ lim = [chunks |-> FlowChunks, sess |-> 1, msgs |-> RecvMsgs,
              bcasts |-> 0, bounces |-> 0, fails |-> 0]

SpecDebug == InitDebug /\ [][NextReceiver]_vars

\* The subscriber registry: subscribers that connect, disconnect and stop
\* reading, and the broadcasts of the two tasks, send by send.
InitBroadcast ==
    /\ InitCommon
    /\ send_budget_defined = TRUE
    /\ debug_mode = FALSE
    /\ lim = [chunks |-> 0, sess |-> 0, msgs |-> 0,
              bcasts |-> MaxBroadcasts, bounces |-> MaxBounces,
              fails |-> 0]

NextBroadcast ==
    \/ \E h \in SubHandles : Register(h) \/ Unregister(h) \/ Stall(h) \/ Bounce(h)
    \/ \E c \in Callers : BroadcastCall(c) \/ \E raised \in BOOLEAN : SendDone(c, raised)

SpecBroadcast == InitBroadcast /\ [][NextBroadcast]_vars

\* The event loop resumes a task whose send_text has completed, and a
\* send_text that was able to complete has completed: the send can stay
\* pending for ever only if from some time on the subscriber is stalled.
SpecBroadcastFair ==
    /\ SpecBroadcast
    /\ \A c \in Callers : SF_vars(\E raised \in BOOLEAN : SendDone(c, raised))

\* The restart of ingest: a healthy transcoder, asr_link and its sender, and
\* a subscriber that connects, disconnects and may stop reading.
InitRestart ==
    /\ InitCommon
    /\ send_budget_defined \in BOOLEAN
    /\ debug_mode = FALSE
    /\ lim = [chunks |-> MaxChunks, sess |-> MaxSess, msgs |-> 0,
              bcasts |-> 0, bounces |-> 0, fails |-> 0]

NextRestart ==
    \/ IngestHealthy
    \/ Link
    \/ \E h \in Handles : Register(h) \/ Unregister(h) \/ Stall(h)

SpecRestart == InitRestart /\ [][NextRestart]_vars

\* The event loop runs ffmpeg_reader whenever what it awaits has completed:
\* a read poll ends after read_poll_seconds, a sleep after its delay, and a
\* broadcast when its sends have completed; ffmpeg_reader can stay suspended
\* for ever only if from some time on what it awaits cannot complete.
SpecRestartFair == SpecRestart /\ SF_vars(IngestHealthy)

\* The backoff of ingest: an installed transcoder that outputs chunks, stays
\* silent, ends its output, exits or makes the read fail, and a subscriber.
InitIngestBackoff ==
    /\ InitCommon
    /\ send_budget_defined = TRUE
    /\ debug_mode = FALSE
    /\ lim = [chunks |-> FlowChunks, sess |-> 0, msgs |-> 0,
              bcasts |-> 0, bounces |-> 0, fails |-> MaxFails]

NextIngestBackoff ==
    \/ IngestHealthy
    \/ FReadEof
    \/ FReadError
    \/ ProcessExits
    \/ \E h \in Handles : Register(h) \/ Unregister(h)

SpecIngestBackoff == InitIngestBackoff /\ [][NextIngestBackoff]_vars

\* The backoff of asr_link: a healthy transcoder, and an ASR whose
\* connections fail, are refused, lose their config message or are closed,
\* over more connection attempts than the backoff needs to reach its cap.
InitLinkBackoff ==
    /\ InitCommon
    /\ send_budget_defined \in BOOLEAN
    /\ debug_mode = FALSE
    /\ lim = [chunks |-> MaxChunks, sess |-> BackoffSess, msgs |-> 0,
              bcasts |-> 0, bounces |-> 0, fails |-> 0]

SpecLinkBackoff == InitLinkBackoff /\ [][NextFlow]_vars

\* The shutdown: both tasks with every failure of the transcoder and of the
\* ASR connection, a subscriber that connects, disconnects and may stop
\* reading, and the lifespan that sets STOP and cancels both tasks.
InitShutdown ==
    /\ InitCommon
    /\ send_budget_defined \in BOOLEAN
    /\ debug_mode = FALSE
    /\ lim = [chunks |-> MaxChunks, sess |-> ShutdownSess, msgs |-> 0,
              bcasts |-> 0, bounces |-> 0, fails |-> 0]

NextShutdown ==
    \/ IngestHealthy
    \/ IngestFailing
    \/ Link
    \/ ACancelled
    \/ \E h \in Handles : Register(h) \/ Unregister(h) \/ Stall(h)
    \/ Shutdown

SpecShutdown == InitShutdown /\ [][NextShutdown]_vars

\* The event loop runs each of the two tasks whenever what it awaits has
\* completed or its cancellation is pending, and process.wait(), the close
\* of the socket and the sleeps return.
SpecShutdownFair ==
    /\ SpecShutdown
    /\ WF_vars(IngestHealthy \/ IngestFailing)
    /\ WF_vars(Link \/ ACancelled)

\* ------------------------------------------------------------- properties
\* C1: in every reachable state at most one transcoder process spawned by
\* ffmpeg_reader is alive and at most one uplink socket opened by asr_link is
\* open; a transcoder is spawned only when the previous one is dead and
\* reaped, an uplink is opened only when the previous one is closed.
C1_OneProcessOneSocket ==
    /\ [](liveProcs <= 1 /\ openSockets <= 1)
    /\ [][/\ liveProcs' > liveProcs =>
                liveProcs = 0 /\ process \in {"none", "exited", "reaped"}
          /\ openSockets' > openSockets =>
                openSockets = 0 /\ ws \in {"none", "closed"}]_vars

\* A transcoder respawned after chunks were read, while the second uplink
\* of the run is open.
C1_Witness ==
    /\ fPc = "spawn"
    /\ nread >= 1
    /\ liveProcs = 1
    /\ sess = 2
    /\ openSockets = 1

C5_CancelReleases ==
    /\ fPc = "done" => liveProcs = 0
    /\ aPc = "done" => openSockets = 0

C8_PeerCloseRecovery ==
    (aPc = "connect" /\ obs.endCause \in {"refused", "closed_err", "closed_ok", "eof"})
        => /\ obs.endWaiting
           /\ obs.endDiscarded
           /\ obs.endDrained
           /\ obs.endRestart

\* C9 (as amended): two consecutive captions that the receiver synthesised
\* from free-form payloads in one session differ in (text, partial).
C9_SynthesisedCaptionsDiffer ==
    obs.synPrev # NoKey => obs.synPrev # obs.synCur

\* Two synthesised captions were broadcast, then a typed caption was
\* forwarded.
C9_Witness ==
    /\ obs.synPrev # NoKey
    /\ obs.capCur # obs.synCur

\* C9 as stated: two consecutive caption broadcasts of a session, forwarded
\* or synthesised, differ in (text, partial).
C9_CaptionsDiffer ==
    obs.capPrev # NoKey => obs.capPrev # obs.capCur

C11_SentInEnqueueOrder ==
    /\ [](/\ \A i \in 1..Len(sentLog) :
              /\ sentLog[i].id \in 1..nread
              /\ sentLog[i].id \notin obs.droppedIds
          /\ \A i \in 1..Len(sentLog) : \A j \in (i + 1)..Len(sentLog) :
              sentLog[i].id < sentLog[j].id)
    /\ [][Len(sentLog') > Len(sentLog) =>
              sentLog'[Len(sentLog')].id > obs.lastSent]_vars

\* A session that sent a chunk read after a chunk that put dropped, in the
\* second session of the run.
C11_Witness ==
    /\ sess = 2
    /\ Len(sentLog) >= 2
    /\ \E k \in obs.droppedIds : sentLog[Len(sentLog)].id > k

\* C12: the queue never holds more chunks than its capacity; a put on a full
\* queue leaves the chunks in the queue and their order as they are and adds
\* one to the drop counter; a put on a queue that is not full appends the
\* chunk and leaves the drop counter as it is.
C12_BoundedDropNewest ==
    /\ [](Len(audio_queue.queue) <= max_chunks)
    /\ [][nread' = nread + 1 =>
              IF Len(audio_queue.queue) >= max_chunks
              THEN /\ audio_queue'.queue = audio_queue.queue
                   /\ audio_queue'.dropped = audio_queue.dropped + 1
              ELSE /\ Len(audio_queue'.queue) = Len(audio_queue.queue) + 1
                   /\ SubSeq(audio_queue'.queue, 1, Len(audio_queue.queue))
                          = audio_queue.queue
                   /\ audio_queue'.queue[Len(audio_queue'.queue)].id = nread + 1
                   /\ audio_queue'.dropped = audio_queue.dropped]_vars

\* The queue is full again after a put was dropped and a chunk was taken out.
C12_Witness ==
    /\ audio_queue.dropped >= 1
    /\ Len(audio_queue.queue) = max_chunks
    /\ \E k \in obs.droppedIds : audio_queue.queue[max_chunks].id > k

\* C13: a broadcast that is awaiting a send returns, also when the send is
\* to a subscriber that stopped reading.  The claim says more (the other
\* subscribers get the message, the handle is evicted, ingest and receiver
\* go on): what refutes this refutes the claim.
C13_BroadcastReturns ==
    \A c \in Callers : (bcast[c].pc = "send") ~> (bcast[c].pc = "idle")

\* C14 (as amended): with --debug the receiver broadcasts nothing it gets
\* from the ASR, ready_to_stop included; without --debug a ready_to_stop is
\* broadcast; with and without, ready_to_stop sets ready_to_stop_seen and
\* ends the receiver.
C14_DebugBroadcastsNothing ==
    /\ debug_mode => obs.bcastTypes = {}
    /\ (~debug_mode /\ rPc = "done" /\ rResult = "rts")
          => "ready_to_stop" \in obs.bcastTypes
    /\ rResult = "rts" => ready_to_stop_seen

\* With --debug the receiver got two messages and then ready_to_stop.
C14_Witness ==
    /\ debug_mode
    /\ rPc = "done"
    /\ rResult = "rts"
    /\ asrMsgs = RecvMsgs

\* C14 as stated: with --debug no caption, caption_translation or status is
\* broadcast, and a ready_to_stop the receiver got is broadcast with and
\* without --debug.
C14_ReadyToStopStillBroadcast ==
    /\ debug_mode => obs.bcastTypes \subseteq {"ready_to_stop"}
    /\ (rPc = "done" /\ rResult = "rts") => "ready_to_stop" \in obs.bcastTypes

\* C15: a step of a broadcast (its call, the completion of one of its sends,
\* its return) adds no handle to the registry, whatever was registered or
\* unregistered while it iterated its snapshot and whatever the other
\* broadcast did; and the handles it removes are handles whose send raised
\* during that broadcast.  Hence a handle enters the registry by register only.
C15_BroadcastNeverAdds ==
    [][\A c \in Callers : bcast'[c] # bcast[c] =>
           /\ clients' \subseteq clients
           /\ (clients \ clients') \subseteq bcast'[c].dead]_vars

\* A broadcast has returned that sent to a handle which was unregistered
\* since it took its snapshot, and another that raised on a handle which was
\* unregistered since; neither handle is in the registry.
C15_Witness ==
    \E c, d \in Callers : \E h, g \in SubHandles :
        /\ c # d
        /\ h # g
        /\ bcast[c].pc = "idle" /\ h \in bcast[c].sent
        /\ bcast[d].pc = "idle" /\ g \in bcast[d].dead /\ g \in bcast[c].sent
        /\ h \notin bcast[d].dead
        /\ clients = {}

C16_FormatWrittenAfterConfig ==
    [][format' # format =>
           /\ aPc = "config" /\ aPc' = "bcast_running"
           /\ ws = "open" /\ peer = "up"
           /\ sentLog = <<>> /\ sPc = "idle" /\ rPc = "idle"
           /\ sessFmt' = format'
           /\ UNCHANGED <<ingestVars, clients, sigVars>>]_vars

\* The second session of the run has selected pcm after the first had
\* selected webm and ingest had read a chunk.
C16_Witness ==
    /\ sess = 2
    /\ format = "pcm"
    /\ current_fmt = "webm"
    /\ nread >= 1
    /\ aPc = "bcast_running"

\* C17: asr_link is about to connect only while it holds a pending chunk that
\* ingest read and that was taken out of the queue; as long as ingest has
\* read no chunk no connection is attempted; and when the last session end
\* discarded the pending chunk, the chunk held at the next connection
\* attempt was taken out of the queue after that end.
C17_ConnectOnlyWithChunk ==
    /\ [](/\ aPc = "connect" =>
              /\ pending_chunk # NoChunk
              /\ pending_chunk.id \in 1..nread
              /\ pending_chunk.for >= 1
          /\ nread = 0 => sess = 0 /\ openSockets = 0)
    /\ [][sess' # sess =>
              /\ pending_chunk # NoChunk
              /\ obs.endDiscarded =>
                     pending_chunk.for = sess + 1 /\ pending_chunk.kept = {}]_vars

\* After a session end that discarded the pending chunk, asr_link has taken
\* another chunk out of the queue and is about to connect again.
C17_Witness ==
    /\ aPc = "connect"
    /\ sess >= 1
    /\ obs.endDiscarded
    /\ pending_chunk.for = sess + 1
    /\ pending_chunk.id >= 2

C20_RestartObserved ==
    (restart_ingest_event /\ ~stop_event) ~> ~restart_ingest_event

\* C21: whenever the format asr_link selected differs from the one the
\* running transcoder was started with and STOP is not set, ffmpeg_reader
\* eventually runs a transcoder built for the selected format.  The claim
\* says more (that transcoder keeps the format until the next selection):
\* what refutes this refutes the claim.
C21_RespawnForNewFormat ==
    (format # current_fmt /\ process = "alive" /\ ~stop_event)
        ~> (current_fmt = format /\ process = "alive")

C23_IdleSignaledOnce ==
    /\ [][(/\ fPc = "read" /\ fPc' \in {"wait", "sleep"} /\ nread' = nread
           /\ ~stop_event /\ restart_ingest_event' = restart_ingest_event)
          => /\ ~idle_signaled /\ idle_signaled'
             /\ stream_end_event'
             /\ process = "alive" /\ process' = "killed"]_vars
    /\ [][(idle_signaled' # idle_signaled /\ ~idle_signaled') => nread' = nread + 1]_vars
    /\ [][(stream_end_event' # stream_end_event /\ ~stream_end_event')
          => nread' = nread + 1]_vars
    /\ [][nread' # nread
          => /\ ~stream_end_event' /\ ~idle_signaled'
             /\ nread' = nread + 1
             /\ \/ Len(audio_queue'.queue) = Len(audio_queue.queue) + 1
                \/ audio_queue'.dropped = audio_queue.dropped + 1]_vars
    /\ [][(idle_signaled /\ idle_signaled' /\ nread' = nread)
          => (stream_end_event => stream_end_event')]_vars

\* One chunk was read and the source has been silent since; in the silence
\* the idle branch has run and RESTART_INGEST was set and consumed, so the
\* transcoder has been restarted twice, and ingest is reading again with
\* idle_signaled and STREAM_END still set.
C23_Witness ==
    /\ nread = 1
    /\ idle_signaled
    /\ stream_end_event
    /\ obs.endRestart
    /\ ~restart_ingest_event
    /\ fPc = "read"
    /\ process = "alive"

\* C24: when a run of the transcoder ends in a failure for the k-th time
\* in a row (obs.fails = k - 1 failures before it, no bytes read in between),
\* the delay ffmpeg_reader sleeps before the respawn, min(backoff, cap) with
\* the backoff it holds at that moment, is min(2^(k-1), cap).
C24_ExponentialRespawnDelay ==
    [][obs'.fails = obs.fails + 1
       => /\ ingest_backoff' = ingest_backoff
          /\ Min(ingest_backoff, max_backoff_seconds)
                 = Min(2 ^ obs.fails, max_backoff_seconds)]_vars

\* C25: over k connection attempts and sessions in a row that end in the
\* `except Exception` clause of asr_link (obs.linkFails = k while the clause
\* runs), status=error is broadcast each time and the k-th sleep lasts
\* min(2^(k-1), cap); the backoff stays within 1..cap; and the backoff is 1
\* again when the sender and the receiver of a session that got its config
\* message start, after a NO_AUDIO end, and after a refused or failed
\* connection, so that the next such sleep lasts 1 s.
C25_LinkBackoff ==
    /\ [](asr_backoff \in 1..max_backoff_seconds)
    /\ []((aPc \in {"bcast_err", "sleep_err"})
          => /\ obs.linkFails >= 1
             /\ Min(asr_backoff, max_backoff_seconds)
                    = Min(2 ^ (obs.linkFails - 1), max_backoff_seconds))
    /\ [][obs'.linkFails = obs.linkFails + 1 => aPc' = "bcast_err"]_vars
    /\ [][(aPc' = "sleep_err" /\ aPc # "sleep_err") => aPc = "bcast_err"]_vars
    /\ [][(aPc = "sleep_err" /\ aPc' # "sleep_err" /\ ~aCancel)
          => asr_backoff' = Min(2 ^ obs.linkFails, max_backoff_seconds)]_vars
    /\ [](aPc \in {"wait", "sleep1"} => (asr_backoff = 1 /\ obs.linkFails = 0))
    /\ [][(aPc = "closing" /\ aPc' # "closing" /\ aExc = "noaudio")
          => (asr_backoff' = 1 /\ obs'.linkFails = 0)]_vars
    /\ [][(aPc = "config" /\ aPc' = "bcast_running") => obs'.linkFails = 0]_vars

\* The fourth failure in a row: the backoff has reached the cap, which is
\* less than 2^3, and asr_link sleeps the cap.
C25_Witness ==
    /\ aPc = "sleep_err"
    /\ obs.linkFails = 4
    /\ asr_backoff = max_backoff_seconds
    /\ max_backoff_seconds < 2 ^ 3

\* C26: once the shutdown has set STOP and cancelled ffmpeg_reader and
\* asr_link, both tasks eventually terminate, from whatever state the relay
\* was in; while STOP is set each task has its cancellation pending, is
\* leaving through its finally clause or the close of its socket, or has
\* terminated; STOP is never cleared; and while STOP is set no transcoder is
\* spawned, no connection to the ASR is attempted, no uplink is opened and a
\* task that has terminated does not run again.
C26_ShutdownTerminates ==
    /\ stop_event ~> (fPc = "done" /\ aPc = "done")
    /\ [](stop_event => (fCancel \/ fPc \in {"done", "wait_c", "sleep_c"}))
    /\ [](stop_event => (aCancel \/ aPc \in {"done", "closing"}))
    /\ [][stop_event
          => /\ stop_event'
             /\ (process' = "alive" => process = "alive")
             /\ liveProcs' <= liveProcs
             /\ sess' = sess
             /\ openSockets' <= openSockets
             /\ (fPc = "done" => fPc' = "done")
             /\ (aPc = "done" => aPc' = "done")]_vars

\* The shutdown has completed although the only subscriber had stopped
\* reading: a session had received its config message, and a transcoder had
\* been killed and reaped.
C26_Witness ==
    /\ stop_event
    /\ fPc = "done"
    /\ aPc = "done"
    /\ sess = 1
    /\ sessFmt # "none"
    /\ process = "reaped"
    /\ clients # {}
    /\ clients \subseteq stalled

\* C27: in a run in which every spawn of the transcoder succeeds and no
\* read from it fails, ffmpeg_reader completes no broadcast of status=error
\* while a subscriber is connected, whatever restarts the transcoder (format
\* change, RESTART_INGEST, idle source).  The claim says more (which
\* failures are surfaced): what refutes this refutes the claim.
C27_RestartsNotSurfaced ==
    [][(fPc = "bcast_err" /\ fPc' # "bcast_err") => clients = {}]_vars

====
